---- MODULE Spec2Model ----
(***************************************************************************)
(* Model of the bank-statement converter (backend/main.py): the /convert   *)
(* handler, the decryption adapter, the header resolver, the field         *)
(* normalizers and the row filter of parse_hdfc_pdf.                       *)
(*                                                                         *)
(* Python values are modelled as follows.                                  *)
(*   str            a TLA+ string                                          *)
(*   Optional[T]    NONE (the empty tuple) or Some(v) (a one-element tuple)*)
(*   float          a record [cls, num, den]: num/den with den a power of  *)
(*                  ten, or cls = "nan" / "inf"                            *)
(*   an exception   Raise(kind), a two-element tuple, returned in place of *)
(*                  the value and propagated by the callers as Python does *)
(*   list indices   1-based here, 0-based in the source                    *)
(***************************************************************************)
EXTENDS Integers, Sequences, FiniteSets, TLC

NONE == <<>>
Some(v) == <<v>>
IsSome(o) == Len(o) = 1
Val(o) == o[1]
Raise(kind) == <<"raise", kind>>
IsRaise(o) == Len(o) = 2

(***************************************************************************)
(* str primitives                                                          *)
(***************************************************************************)
UpperLetters == "ABCDEFGHIJKLMNOPQRSTUVWXYZ"
LowerLetters == "abcdefghijklmnopqrstuvwxyz"
Digits == "0123456789"

CharAt(s, i) == SubSeq(s, i, i)

\* position of the one-character string c in s, 0 when absent
IndexOf(c, s) ==
    IF \E i \in 1..Len(s) : CharAt(s, i) = c
    THEN CHOOSE i \in 1..Len(s) : CharAt(s, i) = c
    ELSE 0

DigitValue == [c \in {CharAt(Digits, i) : i \in 1..10} |-> IndexOf(c, Digits) - 1]
ToLower == [c \in {CharAt(UpperLetters, i) : i \in 1..26} |->
               CharAt(LowerLetters, IndexOf(c, UpperLetters))]
ToUpper == [c \in {CharAt(LowerLetters, i) : i \in 1..26} |->
               CharAt(UpperLetters, IndexOf(c, LowerLetters))]

IsDigit(c) == c \in DOMAIN DigitValue
DigitVal(c) == DigitValue[c]
IsSpace(c) == c \in {" ", "\t", "\n", "\r"}

LowerChar(c) == IF c \in DOMAIN ToLower THEN ToLower[c] ELSE c
UpperChar(c) == IF c \in DOMAIN ToUpper THEN ToUpper[c] ELSE c

RECURSIVE lower(_)
lower(s) == IF s = "" THEN "" ELSE LowerChar(CharAt(s, 1)) \o lower(Tail(s))

RECURSIVE upper(_)
upper(s) == IF s = "" THEN "" ELSE UpperChar(CharAt(s, 1)) \o upper(Tail(s))

RECURSIVE lstrip(_)
lstrip(s) == IF s # "" /\ IsSpace(CharAt(s, 1)) THEN lstrip(Tail(s)) ELSE s

RECURSIVE rstrip(_)
rstrip(s) ==
    IF s # "" /\ IsSpace(CharAt(s, Len(s))) THEN rstrip(SubSeq(s, 1, Len(s) - 1)) ELSE s

strip(s) == rstrip(lstrip(s))

\* a in h, for str
Contains(a, h) ==
    \E i \in 1..(Len(h) - Len(a) + 1) : SubSeq(h, i, i + Len(a) - 1) = a

endswith(s, suffix) ==
    Len(s) >= Len(suffix) /\ SubSeq(s, Len(s) - Len(suffix) + 1, Len(s)) = suffix

\* s.replace(",", "")
RECURSIVE RemoveCommas(_)
RemoveCommas(s) ==
    IF s = "" THEN ""
    ELSE IF CharAt(s, 1) = "," THEN RemoveCommas(Tail(s))
    ELSE CharAt(s, 1) \o RemoveCommas(Tail(s))

AllDigits(s) == s # "" /\ \A i \in 1..Len(s) : IsDigit(CharAt(s, i))

RECURSIVE DigitsVal(_)
DigitsVal(s) ==
    IF s = "" THEN 0 ELSE 10 * DigitsVal(SubSeq(s, 1, Len(s) - 1)) + DigitVal(CharAt(s, Len(s)))

RECURSIVE Pow10(_)
Pow10(k) == IF k = 0 THEN 1 ELSE 10 * Pow10(k - 1)

\* the pieces of s between occurrences of the one-character separator sep
RECURSIVE Split(_, _)
Split(s, sep) ==
    LET i == IndexOf(sep, s)
    IN  IF i = 0 THEN <<s>>
        ELSE <<SubSeq(s, 1, i - 1)>> \o Split(SubSeq(s, i + 1, Len(s)), sep)

(***************************************************************************)
(* float: float(s) for a str s.  The decimal forms [sign] digits [. digits]*)
(* and the words nan / inf / infinity are modelled; exponent and           *)
(* underscore forms do not occur in the cell texts of this model.          *)
(***************************************************************************)
RECURSIVE Reduce(_, _)
Reduce(num, den) ==
    IF den > 1 /\ num % 10 = 0 THEN Reduce(num \div 10, den \div 10)
    ELSE [cls |-> "fin", num |-> num, den |-> den]

Zero == [cls |-> "fin", num |-> 0, den |-> 1]
NaN == [cls |-> "nan", num |-> 0, den |-> 1]
Inf(sign) == [cls |-> "inf", num |-> sign, den |-> 1]

\* bool(x) for a float x
Truthy(x) == x.cls # "fin" \/ x.num # 0
\* x > 0 and x >= 0 for a float x (both false of nan)
Positive(x) == x.cls # "nan" /\ x.num > 0
NonNegative(x) == x.cls # "nan" /\ x.num >= 0

float(s) ==
    LET t == strip(s)
        signed == t # "" /\ CharAt(t, 1) \in {"-", "+"}
        sign == IF t # "" /\ CharAt(t, 1) = "-" THEN -1 ELSE 1
        body == IF signed THEN Tail(t) ELSE t
        parts == Split(body, ".")
    IN  IF lower(body) = "nan" THEN Some(NaN)
        ELSE IF lower(body) \in {"inf", "infinity"} THEN Some(Inf(sign))
        ELSE IF Len(parts) = 1 /\ AllDigits(parts[1])
             THEN Some(Reduce(sign * DigitsVal(parts[1]), 1))
        ELSE IF /\ Len(parts) = 2
                /\ parts[1] = "" \/ AllDigits(parts[1])
                /\ parts[2] = "" \/ AllDigits(parts[2])
                /\ parts[1] # "" \/ parts[2] # ""
             THEN Some(Reduce(sign * (DigitsVal(parts[1]) * Pow10(Len(parts[2]))
                                      + DigitsVal(parts[2])),
                              Pow10(Len(parts[2]))))
        ELSE Raise("ValueError")

(***************************************************************************)
(* datetime.strptime / strftime for the four formats of _parse_date.  A    *)
(* format is [sep, month, year]: "%d" sep "%m"|"%b" sep "%Y"|"%y".  The    *)
(* directives match as the regular expressions of _strptime do:            *)
(*   %d  3[0-1]|[1-2]\d|0[1-9]|[1-9]| [1-9]     %m  1[0-2]|0[1-9]|[1-9]    *)
(*   %Y  \d\d\d\d    %y  \d\d    %b  a month abbreviation, any case        *)
(* and the whole text has to be consumed.                                  *)
(***************************************************************************)
DATE_FORMATS ==
    << [sep |-> "/", month |-> "m", year |-> "Y"],
       [sep |-> "/", month |-> "m", year |-> "y"],
       [sep |-> "-", month |-> "b", year |-> "y"],
       [sep |-> "-", month |-> "b", year |-> "Y"] >>

MonthAbbr == <<"jan", "feb", "mar", "apr", "may", "jun",
               "jul", "aug", "sep", "oct", "nov", "dec">>

\* 0 when the text does not match the directive
DirectiveD(p) ==
    IF Len(p) = 2 /\ CharAt(p, 1) = " " /\ IsDigit(CharAt(p, 2)) THEN DigitVal(CharAt(p, 2))
    ELSE IF Len(p) \in {1, 2} /\ AllDigits(p) /\ DigitsVal(p) \in 1..31 THEN DigitsVal(p)
    ELSE 0

DirectiveM(p) ==
    IF Len(p) \in {1, 2} /\ AllDigits(p) /\ DigitsVal(p) \in 1..12 THEN DigitsVal(p) ELSE 0

DirectiveB(p) ==
    IF \E k \in 1..12 : MonthAbbr[k] = lower(p)
    THEN CHOOSE k \in 1..12 : MonthAbbr[k] = lower(p)
    ELSE 0

\* -1 when the text does not match the directive
DirectiveYear(p, kind) ==
    IF kind = "Y" THEN (IF Len(p) = 4 /\ AllDigits(p) THEN DigitsVal(p) ELSE -1)
    ELSE IF Len(p) = 2 /\ AllDigits(p)
         THEN (IF DigitsVal(p) <= 68 THEN 2000 + DigitsVal(p) ELSE 1900 + DigitsVal(p))
    ELSE -1

IsLeap(y) == y % 4 = 0 /\ (y % 100 # 0 \/ y % 400 = 0)

DaysInMonth(y, m) ==
    IF m = 2 THEN (IF IsLeap(y) THEN 29 ELSE 28)
    ELSE IF m \in {4, 6, 9, 11} THEN 30 ELSE 31

strptime(d, fmt) ==
    LET parts == Split(d, fmt.sep)
        day == DirectiveD(parts[1])
        month == IF fmt.month = "m" THEN DirectiveM(parts[2]) ELSE DirectiveB(parts[2])
        year == DirectiveYear(parts[3], fmt.year)
    IN  IF /\ Len(parts) = 3
           /\ day > 0 /\ month > 0 /\ year >= 1
           /\ day <= DaysInMonth(year, month)
        THEN Some([year |-> year, month |-> month, day |-> day])
        ELSE Raise("ValueError")

RECURSIVE Decimal(_)
Decimal(n) ==
    IF n < 10 THEN CharAt(Digits, n + 1)
    ELSE Decimal(n \div 10) \o CharAt(Digits, (n % 10) + 1)

Pad2(n) == IF n < 10 THEN "0" \o Decimal(n) ELSE Decimal(n)

\* strftime("%Y-%m-%d")
strftime(dt) == Decimal(dt.year) \o "-" \o Pad2(dt.month) \o "-" \o Pad2(dt.day)

(***************************************************************************)
(* helpers of main.py                                                      *)
(***************************************************************************)
\* the first format, from position k on, that parses d
RECURSIVE TryFormats(_, _)
TryFormats(d, k) ==
    IF k > Len(DATE_FORMATS) THEN NONE
    ELSE IF IsSome(strptime(d, DATE_FORMATS[k]))
         THEN Some(strftime(Val(strptime(d, DATE_FORMATS[k]))))
    ELSE TryFormats(d, k + 1)

\* d is Optional[str]; the result is Optional[str]
_parse_date(d) ==
    IF d = NONE \/ d = Some("") THEN NONE
    ELSE TryFormats(strip(Val(d)), 1)

\* _to_float without the try / except around float(s)
ToFloatUnguarded(x) ==
    IF x = NONE THEN NONE
    ELSE LET s == strip(RemoveCommas(Val(x)))
         IN  IF s \in {"", "-", "--"} THEN NONE ELSE float(s)

\* x is Optional[str] (a table cell is never a number, so the isinstance
\* branch of the source is not taken); the result is Optional[float]
_to_float(x) ==
    IF x = NONE THEN NONE
    ELSE LET s == strip(RemoveCommas(Val(x)))
         IN  IF s \in {"", "-", "--"} THEN NONE
             ELSE IF IsRaise(float(s)) THEN NONE
             ELSE float(s)

\* reader.is_encrypted and reader.decrypt(password) == 0, then the rebuilt
\* copy.  A document is [kind, key]: kind "plain", "protected" (unlocked by
\* key) or "corrupt" (not a readable PDF, PdfReader raises).
Plain == [kind |-> "plain", key |-> ""]

\* maybe_decrypt without the check of reader.decrypt's result
MaybeDecryptUnchecked(pdf_bytes, password) ==
    IF password = NONE \/ password = Some("") THEN Some(pdf_bytes)
    ELSE IF pdf_bytes.kind = "corrupt" THEN Raise("PdfReadError")
    ELSE IF pdf_bytes.kind = "protected" /\ Val(password) # pdf_bytes.key
         THEN Some(pdf_bytes)
    ELSE Some(Plain)

maybe_decrypt(pdf_bytes, password) ==
    IF password = NONE \/ password = Some("") THEN Some(pdf_bytes)
    ELSE IF pdf_bytes.kind = "corrupt" THEN Raise("PdfReadError")
    ELSE IF pdf_bytes.kind = "protected" /\ Val(password) # pdf_bytes.key
         THEN Raise("Incorrect PDF password.")
    ELSE Some(Plain)

HDFC_HEADERS ==
    [key \in {"date", "narration", "refno", "debit", "credit"} |->
        CASE key = "date" -> {"date", "txn date", "transaction date"}
          [] key = "narration" -> {"narration", "description", "particulars", "remarks"}
          [] key = "refno" -> {"chq/ref no.", "ref no.", "cheque no", "cheque/ref no",
                               "utr no", "rrn"}
          [] key = "debit" -> {"withdrawal amt.", "withdrawal amount", "debit", "withdrawal"}
          [] key = "credit" -> {"deposit amt.", "deposit amount", "credit", "deposit"}]

\* (x or "") for an Optional[str]
OrEmpty(x) == IF x = NONE THEN "" ELSE Val(x)

\* any(alias in h for alias in HDFC_HEADERS[key]) for the cell text h of a
\* header row, taken as (h or "").strip().lower()
HeaderCellMatches(h, key) ==
    LET low == lower(strip(OrEmpty(h)))
    IN  \E alias \in HDFC_HEADERS[key] : Contains(alias, low)

\* for i, h in enumerate(low): the first index from i on whose cell matches
RECURSIVE FirstMatch(_, _, _)
FirstMatch(headers_row, key, i) ==
    IF i > Len(headers_row) THEN NONE
    ELSE IF HeaderCellMatches(headers_row[i], key) THEN Some(i)
    ELSE FirstMatch(headers_row, key, i + 1)

\* _match_field with the enumeration started at the second column
MatchFieldSkippingFirst(headers_row, key) == FirstMatch(headers_row, key, 2)

\* headers_row is a list of Optional[str]; the result is the index of the
\* first column that holds an alias of key, or NONE
_match_field(headers_row, key) == FirstMatch(headers_row, key, 1)

\* i_date, i_narr, i_ref, i_deb, i_cred of one table
ResolveHeader(hdr) == [key \in DOMAIN HDFC_HEADERS |-> _match_field(hdr, key)]

NoHeader == [key \in DOMAIN HDFC_HEADERS |-> NONE]

\* the table is used when this holds, skipped otherwise
Accepted(h) == h["date"] # NONE /\ (h["debit"] # NONE \/ h["credit"] # NONE)

safe(r, i) == IF i # NONE /\ Val(i) <= Len(r) THEN r[Val(i)] ELSE NONE

\* (x or 0.0) for an Optional[float]
OrZero(x) == IF x = NONE \/ ~Truthy(Val(x)) THEN Zero ELSE Val(x)

\* the total test without lower()
IsTotalRowCaseSensitive(narr) == Contains("total", narr)

\* "total" in (narr.lower() if narr else "")
IsTotalRow(narr) == Contains("total", IF narr # "" THEN lower(narr) ELSE "")

\* not (date and (deb or cre or narr or ref))
IsBlankRow(date, narr, ref, deb, cre) ==
    ~(/\ date # NONE /\ Val(date) # ""
      /\ Truthy(deb) \/ Truthy(cre) \/ narr # "" \/ ref # "")

\* (narr or ref)
NarrationOrRef(narr, ref) == IF narr # "" THEN narr ELSE ref

\* The body of the row loop for row r under the indices h: Raise(e) when a
\* helper raises, NONE when the row is skipped, Some(record) when a record
\* is appended.
RowRecord(h, r) ==
    LET date == _parse_date(safe(r, h["date"]))
        narr == strip(OrEmpty(safe(r, h["narration"])))
        ref == strip(OrEmpty(safe(r, h["refno"])))
        fdeb == _to_float(safe(r, h["debit"]))
        fcre == _to_float(safe(r, h["credit"]))
        deb == OrZero(fdeb)
        cre == OrZero(fcre)
    IN  IF IsRaise(date) THEN date
        ELSE IF IsRaise(fdeb) THEN fdeb
        ELSE IF IsRaise(fcre) THEN fcre
        ELSE IF IsBlankRow(date, narr, ref, deb, cre) THEN NONE
        ELSE IF IsTotalRow(narr) THEN NONE
        ELSE Some([Date |-> Val(date),
                   Narration |-> NarrationOrRef(narr, ref),
                   RefNo |-> ref,
                   Debit |-> deb,
                   Credit |-> cre,
                   Balance |-> ""])

\* an append that leaves out a record already present
AppendRowUnlessPresent(rows, rec) ==
    IF \E i \in 1..Len(rows) : rows[i] = rec THEN rows ELSE Append(rows, rec)

\* rows.append(rec)
AppendRow(rows, rec) == Append(rows, rec)

(***************************************************************************)
(* Bounds and input sets                                                   *)
(***************************************************************************)
\* data rows read in one conversion
MaxRows == 2
\* columns of a header row resolved alone
MaxCols == 3

\* len(raw) > 12_000_000
MAX_UPLOAD == 12000000

Banks == {" hdfc ", "ICICI", "HDFCX"}
Passwords == {NONE, Some(""), Some("k1"), Some("k2")}
Docs == {Plain, [kind |-> "protected", key |-> "k1"], [kind |-> "corrupt", key |-> ""]}
Filenames == {NONE, Some("stmt.PDF"), Some("stmt.pdf.txt")}
Files ==
    {NONE} \cup
    { Some([filename |-> fn, size |-> sz, doc |-> d]) :
        fn \in Filenames, sz \in {MAX_UPLOAD, MAX_UPLOAD + 1}, d \in Docs }

\* header rows of the tables the conversion meets
HeaderRows ==
    { <<Some("Date"), Some("Narration"), Some("Withdrawal Amt.")>>,
      <<Some("Txn Date"), Some("Chq/Ref No."), Some("Deposit")>>,
      <<Some("Narration"), NONE, Some("Debit")>>,
      <<Some("Date"), Some("Particulars"), Some("Closing Balance")>> }

\* cell texts of the header rows resolved alone
HeaderCells ==
    {NONE, Some("Date"), Some("Value Date"), Some(" NARRATION "), Some("Debit/Credit"),
     Some("Withdrawal Amt.")}

\* cell texts of the data rows, by the column they are met in
DateCells == {Some("01/04/2024"), Some("05-Mar-24"), Some("31/02/24")}
TextCells == {Some(""), Some("ATM WDL"), Some(" Grand TOTAL ")}
AmountCells == {Some(""), Some("1,234.50"), Some("-5"), Some("n/a")}

\* data rows: full rows, rows cut short and a row of empty cells
DataRows ==
    { <<d, t, a>> : d \in DateCells, t \in TextCells, a \in AmountCells }
    \cup { <<d, t>> : d \in DateCells, t \in TextCells }
    \cup { <<d>> : d \in DateCells }
    \cup { <<NONE, NONE, NONE>> }

(***************************************************************************)
(* The conversion as a state machine.  The pages, tables and rows of the   *)
(* document are what pdfplumber yields while the loops of parse_hdfc_pdf   *)
(* run: each is chosen when its loop reaches it.  hdr, idx and r are       *)
(* locals of a loop body and are NONE outside it.                          *)
(***************************************************************************)
VARIABLES
    pc,               \* position in convert / parse_hdfc_pdf
    bank, file, password,   \* the request
    data,             \* maybe_decrypt's result
    outcome,          \* the response: [status, error]
    COUNTS,
    decryptAttempted, \* history: maybe_decrypt built a PdfReader
    locateAttempted,  \* history: pdfplumber.open was called
    gridFound,        \* history: extract_tables yielded a table
    hdr,              \* tbl[0] of the current table
    idx,              \* i_date .. i_cred of the current table
    rowsLeft,         \* rows of tbl[1:] not yet iterated
    rowsRead,         \* data rows iterated so far
    r,                \* the loop variable of the row loop
    rows,             \* the records appended so far
    hpc,              \* header resolution taken alone: its position,
    hRow,             \*   the header row,
    hPerm,            \*   a permutation of its columns,
    hMap,             \*   the indices resolved in the row
    hPermMap          \*   and in the permuted row

vars == <<pc, bank, file, password, data, outcome, COUNTS, decryptAttempted,
          locateAttempted, gridFound, hdr, idx, rowsLeft, rowsRead, r, rows,
          hpc, hRow, hPerm, hMap, hPermMap>>

HdrVars == <<hpc, hRow, hPerm, hMap, hPermMap>>

Pending == [status |-> 0, error |-> ""]
Response(status, error) == [status |-> status, error |-> error]
ParseFailed(e) == Response(422, "Parse failed: " \o e)
NO_TABLE == "No statement table found (if scanned, OCR comes next)."
UnsupportedBank(b) == "Bank '" \o b \o "' not supported yet. Use HDFC."

Init ==
    /\ pc = "validate"
    /\ bank \in Banks
    /\ file \in Files
    /\ password \in Passwords
    /\ data = NONE
    /\ outcome = Pending
    /\ COUNTS = [conversions_today |-> 0, ocr_calls_today |-> 0]
    /\ decryptAttempted = FALSE
    /\ locateAttempted = FALSE
    /\ gridFound = FALSE
    /\ hdr = NONE
    /\ idx = NoHeader
    /\ rowsLeft = 0
    /\ rowsRead = 0
    /\ r = NONE
    /\ rows = <<>>
    /\ hpc = "off"
    /\ hRow = <<>>
    /\ hPerm = <<>>
    /\ hMap = NoHeader
    /\ hPermMap = NoHeader

ParseVars == <<gridFound, hdr, idx, rowsLeft, rowsRead, r, rows>>

\* the checks of convert before the try block
Validate ==
    /\ pc = "validate"
    /\ IF file = NONE
       THEN outcome' = Response(400, "No file uploaded") /\ pc' = "done"
       ELSE IF ~endswith(lower(OrEmpty(Val(file).filename)), ".pdf")
       THEN outcome' = Response(400, "Only PDF files are allowed") /\ pc' = "done"
       ELSE IF Val(file).size > MAX_UPLOAD
       THEN outcome' = Response(400, "File too large (max 12MB)") /\ pc' = "done"
       ELSE outcome' = outcome /\ pc' = "decrypt"
    /\ UNCHANGED <<bank, file, password, data, COUNTS, decryptAttempted, locateAttempted>>
    /\ UNCHANGED ParseVars
    /\ UNCHANGED HdrVars

\* data = maybe_decrypt(raw, password)
Decrypt ==
    /\ pc = "decrypt"
    /\ decryptAttempted' = ~(password = NONE \/ password = Some(""))
    /\ LET res == maybe_decrypt(Val(file).doc, password)
       IN  IF IsRaise(res)
           THEN outcome' = ParseFailed(res[2]) /\ pc' = "done" /\ data' = data
           ELSE outcome' = outcome /\ pc' = "dispatch" /\ data' = res
    /\ UNCHANGED <<bank, file, password, COUNTS, locateAttempted>>
    /\ UNCHANGED ParseVars
    /\ UNCHANGED HdrVars

\* if bank.strip().upper() == "HDFC" ... else "not supported"
Dispatch ==
    /\ pc = "dispatch"
    /\ IF upper(strip(bank)) = "HDFC"
       THEN outcome' = outcome /\ pc' = "open"
       ELSE outcome' = Response(400, UnsupportedBank(bank)) /\ pc' = "done"
    /\ UNCHANGED <<bank, file, password, data, COUNTS, decryptAttempted, locateAttempted>>
    /\ UNCHANGED ParseVars
    /\ UNCHANGED HdrVars

\* pdfplumber.open(data): a document still protected, or corrupt, raises
OpenPdf ==
    /\ pc = "open"
    /\ locateAttempted' = TRUE
    /\ IF Val(data).kind = "plain"
       THEN outcome' = outcome /\ pc' = "pages"
       ELSE outcome' = ParseFailed("pdfminer: " \o Val(data).kind) /\ pc' = "done"
    /\ UNCHANGED <<bank, file, password, data, COUNTS, decryptAttempted>>
    /\ UNCHANGED ParseVars
    /\ UNCHANGED HdrVars

\* for page in pdf.pages
NextPage ==
    /\ pc = "pages"
    /\ pc' = "tables"
    /\ UNCHANGED <<bank, file, password, data, outcome, COUNTS, decryptAttempted,
                   locateAttempted>>
    /\ UNCHANGED ParseVars
    /\ UNCHANGED HdrVars

\* the page loop ends
EndPages ==
    /\ pc = "pages"
    /\ pc' = "finish"
    /\ UNCHANGED <<bank, file, password, data, outcome, COUNTS, decryptAttempted,
                   locateAttempted>>
    /\ UNCHANGED ParseVars
    /\ UNCHANGED HdrVars

\* for tbl in page.extract_tables(): not tbl or len(tbl) < 2
ShortTable ==
    /\ pc = "tables"
    /\ gridFound' = TRUE
    /\ UNCHANGED <<pc, bank, file, password, data, outcome, COUNTS, decryptAttempted,
                   locateAttempted, hdr, idx, rowsLeft, rowsRead, r, rows>>
    /\ UNCHANGED HdrVars

\* for tbl in page.extract_tables(): a table with header row h and n data
\* rows; it is skipped unless the header is accepted
NextTable ==
    /\ pc = "tables"
    /\ \E h \in HeaderRows, n \in 1..(MaxRows - rowsRead) :
         IF Accepted(ResolveHeader(h))
         THEN /\ hdr' = Some(h)
              /\ idx' = ResolveHeader(h)
              /\ rowsLeft' = n
              /\ pc' = "rows"
         ELSE UNCHANGED <<hdr, idx, rowsLeft, pc>>
    /\ gridFound' = TRUE
    /\ UNCHANGED <<bank, file, password, data, outcome, COUNTS, decryptAttempted,
                   locateAttempted, rowsRead, r, rows>>
    /\ UNCHANGED HdrVars

\* the table loop of the page ends
EndTables ==
    /\ pc = "tables"
    /\ pc' = "pages"
    /\ UNCHANGED <<bank, file, password, data, outcome, COUNTS, decryptAttempted,
                   locateAttempted>>
    /\ UNCHANGED ParseVars
    /\ UNCHANGED HdrVars

\* for r in tbl[1:]
FetchRow ==
    /\ pc = "rows"
    /\ rowsLeft > 0
    /\ \E row \in DataRows : r' = Some(row)
    /\ rowsLeft' = rowsLeft - 1
    /\ rowsRead' = rowsRead + 1
    /\ pc' = "row"
    /\ UNCHANGED <<bank, file, password, data, outcome, COUNTS, decryptAttempted,
                   locateAttempted, gridFound, hdr, idx, rows>>
    /\ UNCHANGED HdrVars

\* the row loop of the table ends
EndRows ==
    /\ pc = "rows"
    /\ rowsLeft = 0
    /\ pc' = "tables"
    /\ hdr' = NONE
    /\ idx' = NoHeader
    /\ r' = NONE
    /\ UNCHANGED <<bank, file, password, data, outcome, COUNTS, decryptAttempted,
                   locateAttempted, gridFound, rowsLeft, rowsRead, rows>>
    /\ UNCHANGED HdrVars

\* the body of the row loop; an exception leaves parse_hdfc_pdf and is caught
\* by convert
ProcessRow ==
    /\ pc = "row"
    /\ LET res == RowRecord(idx, Val(r))
       IN  IF IsRaise(res)
           THEN outcome' = ParseFailed(res[2]) /\ pc' = "done" /\ rows' = rows
           ELSE /\ outcome' = outcome
                /\ pc' = "rows"
                /\ rows' = IF res = NONE THEN rows ELSE AppendRow(rows, Val(res))
    /\ UNCHANGED <<bank, file, password, data, COUNTS, decryptAttempted, locateAttempted,
                   gridFound, hdr, idx, rowsLeft, rowsRead, r>>
    /\ UNCHANGED HdrVars

\* if not rows: raise ValueError(...); otherwise the CSV response
Finish ==
    /\ pc = "finish"
    /\ pc' = "done"
    /\ IF rows = <<>>
       THEN outcome' = ParseFailed(NO_TABLE) /\ COUNTS' = COUNTS
       ELSE /\ outcome' = Response(200, "")
            /\ COUNTS' = [COUNTS EXCEPT !["conversions_today"] = @ + 1]
    /\ UNCHANGED <<bank, file, password, data, decryptAttempted, locateAttempted>>
    /\ UNCHANGED ParseVars
    /\ UNCHANGED HdrVars

Next ==
    \/ Validate
    \/ Decrypt
    \/ Dispatch
    \/ OpenPdf
    \/ NextPage
    \/ EndPages
    \/ ShortTable
    \/ NextTable
    \/ EndTables
    \/ FetchRow
    \/ EndRows
    \/ ProcessRow
    \/ Finish

Spec == Init /\ [][Next]_vars
\* the conversion of an unprotected statement uploaded without a password
InitStatement ==
    /\ Init
    /\ bank = " hdfc "
    /\ file = Some([filename |-> Some("stmt.PDF"), size |-> MAX_UPLOAD, doc |-> Plain])
    /\ password = NONE

SpecStatement == InitStatement /\ [][Next]_vars

\* the conversions of protected documents
InitProtected ==
    /\ Init
    /\ file # NONE
    /\ Val(file).doc.kind = "protected"

SpecProtected == InitProtected /\ [][Next]_vars

(***************************************************************************)
(* Header resolution taken alone: _match_field applied to each field of a  *)
(* header row and of the same row with its columns permuted.               *)
(***************************************************************************)
Perms(n) == { p \in [1..n -> 1..n] : \A i, j \in 1..n : p[i] = p[j] => i = j }

\* column j of the permuted row is column p[j] of row
Permute(row, p) == [j \in 1..Len(row) |-> row[p[j]]]

InitHdr ==
    /\ pc = "idle"
    /\ bank = "" /\ file = NONE /\ password = NONE /\ data = NONE
    /\ outcome = Pending
    /\ COUNTS = [conversions_today |-> 0, ocr_calls_today |-> 0]
    /\ decryptAttempted = FALSE /\ locateAttempted = FALSE /\ gridFound = FALSE
    /\ hdr = NONE /\ idx = NoHeader /\ rowsLeft = 0 /\ rowsRead = 0
    /\ r = NONE /\ rows = <<>>
    /\ hpc = "resolve"
    /\ \E n \in 1..MaxCols : hRow \in [1..n -> HeaderCells]
    /\ hPerm \in Perms(Len(hRow))
    /\ hMap = NoHeader
    /\ hPermMap = NoHeader

MainVars == <<pc, bank, file, password, data, outcome, COUNTS, decryptAttempted,
              locateAttempted, gridFound, hdr, idx, rowsLeft, rowsRead, r, rows>>

ResolveRow ==
    /\ hpc = "resolve"
    /\ hMap' = ResolveHeader(hRow)
    /\ hpc' = "permuted"
    /\ UNCHANGED <<hRow, hPerm, hPermMap>>
    /\ UNCHANGED MainVars

ResolvePermuted ==
    /\ hpc = "permuted"
    /\ hPermMap' = ResolveHeader(Permute(hRow, hPerm))
    /\ hpc' = "resolved"
    /\ UNCHANGED <<hRow, hPerm, hMap>>
    /\ UNCHANGED MainVars

NextHdr ==
    \/ ResolveRow
    \/ ResolvePermuted

SpecHdr == InitHdr /\ [][NextHdr]_vars

(***************************************************************************)
(* Properties                                                              *)
(***************************************************************************)
\* the upload passed the checks made before the try block of convert
UploadAccepted ==
    /\ file # NONE
    /\ endswith(lower(OrEmpty(Val(file).filename)), ".pdf")
    /\ Val(file).size <= MAX_UPLOAD

\* parse_hdfc_pdf ran to its end on an opened document
ParseEnded == pc = "done" /\ locateAttempted /\ data = Some(Plain)

\* C1: a request whose institution code is not the supported one (any case,
\* surrounding whitespace ignored) ends with the "not supported" response
\* naming the code, and neither a decryption nor a table location has been
\* attempted, whatever the document and the password are.
C1_UnsupportedRejectedFirst ==
    (pc = "done" /\ UploadAccepted /\ upper(strip(bank)) # "HDFC") =>
        /\ outcome = Response(400, UnsupportedBank(bank))
        /\ ~decryptAttempted
        /\ ~locateAttempted

\* C2: the two empty results are told apart by the failure received: a
\* conversion that ends with no record fails, and it fails with the "no table
\* found" failure exactly when the document yielded no table at all.
C2_EmptyResultsDistinct ==
    (ParseEnded /\ rows = <<>>) =>
        /\ outcome.status = 422
        /\ (outcome = ParseFailed(NO_TABLE)) <=> ~gridFound

\* C3: every record appended has a date and at least one of: debit > 0,
\* credit > 0, a narration, a reference.
C3_EmittedRowsMeaningful ==
    \A i \in 1..Len(rows) :
        /\ rows[i].Date # ""
        /\ \/ Positive(rows[i].Debit)
           \/ Positive(rows[i].Credit)
           \/ rows[i].Narration # ""
           \/ rows[i].RefNo # ""

\* C4: in every record appended the debit and the credit are non-negative.
C4_AmountsNonNegative ==
    \A i \in 1..Len(rows) : NonNegative(rows[i].Debit) /\ NonNegative(rows[i].Credit)

\* C5: the indices resolved for a header row give each field the leftmost
\* column that holds one of its aliases, and give no column to two fields.
C5_NoColumnClaimedTwice ==
    hpc # "resolve" =>
        /\ \A key \in DOMAIN HDFC_HEADERS :
             \A i \in 1..Len(hRow) :
                hMap[key] = Some(i) <=>
                    /\ HeaderCellMatches(hRow[i], key)
                    /\ \A j \in 1..(i - 1) : ~HeaderCellMatches(hRow[j], key)
        /\ \A k1, k2 \in DOMAIN HDFC_HEADERS :
             (k1 # k2 /\ hMap[k1] # NONE) => hMap[k1] # hMap[k2]

\* the position, in the permuted row, of column i of the header row
NewPosition(i) == CHOOSE j \in 1..Len(hRow) : hPerm[j] = i

\* key resolves in the permuted row to the new position of the column it
\* resolves to in the header row, and is absent in both or in neither
ResolvesToSameColumn(key) ==
    IF hMap[key] = NONE THEN hPermMap[key] = NONE
    ELSE hPermMap[key] = Some(NewPosition(Val(hMap[key])))

\* C6 as stated: for every header row and every permutation of its columns,
\* each field resolves in the permuted row to the new position of the column
\* it resolved to in the original row.
C6_PermutationInvariant ==
    hpc = "resolved" => \A key \in DOMAIN HDFC_HEADERS : ResolvesToSameColumn(key)

\* no field has an alias in two columns of the header row
AtMostOneColumnPerField ==
    \A key \in DOMAIN HDFC_HEADERS :
        Cardinality({i \in 1..Len(hRow) : HeaderCellMatches(hRow[i], key)}) <= 1

\* C6 amended: for every header row in which no field has an alias in more
\* than one column, and every permutation of its columns, each field resolves
\* in the permuted row to the new position of the column it resolved to in the
\* original row.
C6_PermutationInvariantUniqueColumns ==
    (hpc = "resolved" /\ AtMostOneColumnPerField) =>
        \A key \in DOMAIN HDFC_HEADERS : ResolvesToSameColumn(key)

C6_Witness ==
    /\ hpc = "resolved"
    /\ hRow = <<Some("Date"), Some(" NARRATION "), Some("Withdrawal Amt.")>>
    /\ hPerm[1] = 3 /\ hPerm[2] = 1 /\ hPerm[3] = 2
    /\ hMap["date"] = Some(1) /\ hPermMap["date"] = Some(2)
    /\ hMap["debit"] = Some(3) /\ hPermMap["debit"] = Some(1)

\* a password is supplied and does not unlock the protected document
WrongPassword ==
    /\ file # NONE
    /\ Val(file).doc.kind = "protected"
    /\ password # NONE /\ password # Some("")
    /\ Val(password) # Val(file).doc.key

\* C7: a protected document submitted with a password that does not unlock it
\* fails with the "incorrect password" failure; no table is located, no record
\* is appended and no conversion is counted.
C7_WrongPasswordFails ==
    (UploadAccepted /\ WrongPassword) =>
        /\ pc \in {"validate", "decrypt", "done"}
        /\ pc = "done" => outcome = ParseFailed("Incorrect PDF password.")
        /\ ~locateAttempted
        /\ rows = <<>>
        /\ COUNTS["conversions_today"] = 0

C7_Witness ==
    /\ pc = "done"
    /\ UploadAccepted /\ WrongPassword
    /\ decryptAttempted
    /\ outcome = ParseFailed("Incorrect PDF password.")

\* C8: the records are the surviving rows in the order they are met: the row
\* loop's body appends the record of the row at the end when the row
\* survives, exactly once, and no other step changes the records.
C8_LedgerInEncounterOrder ==
    [][ rows' = IF pc = "row" /\ RowRecord(idx, Val(r)) # NONE
                THEN rows \o <<Val(RowRecord(idx, Val(r)))>>
                ELSE rows ]_vars

\* two rows kept, the later date first
C8_Witness ==
    /\ pc = "done"
    /\ outcome.status = 200
    /\ Len(rows) = 2
    /\ rows[1].Date = "2024-04-01"
    /\ rows[2].Date = "2024-03-05"

\* C9: no row ends the conversion: the body of the row loop always returns to
\* the row loop with the remaining rows still to come and no failure set, and
\* the only failure of a conversion that reached the tables is the empty
\* result of the whole document.
C9_RowAnomaliesAbsorbed ==
    /\ [][pc = "row" => (pc' = "rows" /\ rowsLeft' = rowsLeft /\ outcome' = Pending)]_vars
    /\ [](ParseEnded => outcome \in {Response(200, ""), ParseFailed(NO_TABLE)})

\* the second row has an unparsable date and an unparsable amount; the first
\* row's record is kept and the loop goes on
C9_Witness ==
    /\ pc = "rows"
    /\ rowsRead = 2
    /\ r = Some(<<Some("31/02/24"), Some("ATM WDL"), Some("n/a")>>)
    /\ Len(rows) = 1
    /\ outcome = Pending

\* the narration cell of row under the indices h holds "total" in some case
NarrationHasTotal(h, row) ==
    /\ h["narration"] # NONE
    /\ Val(h["narration"]) <= Len(row)
    /\ row[Val(h["narration"])] # NONE
    /\ LET cell == Val(row[Val(h["narration"])])
       IN  \E i \in 1..(Len(cell) - 4) : lower(SubSeq(cell, i, i + 4)) = "total"

\* C10: a row whose narration holds "total" in any letter case appends no
\* record, also when it has a valid date and a non-zero amount.
C10_TotalRowsDropped ==
    [][(pc = "row" /\ NarrationHasTotal(idx, Val(r))) => rows' = rows]_vars

\* a total row with a valid date and an amount was processed and left no record
C10_Witness ==
    /\ pc = "rows"
    /\ rowsRead = 1
    /\ idx["narration"] = Some(2)
    /\ r = Some(<<Some("01/04/2024"), Some(" Grand TOTAL "), Some("1,234.50")>>)
    /\ rows = <<>>

====
